---- MODULE Spec2Model ----
(***************************************************************************)
(* The TestSprite end-to-end scripts of the kiosk front-end.  Every file   *)
(* under src/testsprite_tests is one coroutine run_test(): session         *)
(* bootstrap, a fixed list of goto / click steps, an optional final        *)
(* visibility assertion, and a finally block that releases the context,    *)
(* the browser and the Playwright driver.  One behaviour of this module    *)
(* is one run of one script; the outcomes of the Playwright calls are the  *)
(* nondeterministic inputs.                                                *)
(***************************************************************************)
EXTENDS Integers, Sequences, FiniteSets

\* ------------------------------------------------------------------ bounds
\* page.frames always holds the main frame; the number of iframes of the
\* application is not fixed by the scripts.
MaxFrames == 2

\* --------------------------------------------------- constants of the code
GotoTimeoutMs == 10000
DomTimeoutMs == 3000

\* A grace wait that lost a digit.
ShortGrace == 3 * 100

GraceMs == 3000
ClickTimeoutMs == 5000
AssertTimeoutMs == 3000
DefaultTimeoutMs == 5000
FinalSleepS == 5

\* ------------------------------------------------------- authored scripts
\* A step is a goto, a click or the final expect(...).to_be_visible.  act is
\* the ordinal of the "# -> ..." comment that announces the step (steps
\* under one comment, or under comments with the same text, share it); loc
\* is the index of the click's XPath in Locators.
G(a) == [kind |-> "goto", act |-> a, loc |-> 0]

C(a, l) == [kind |-> "click", act |-> a, loc |-> l]

A(a) == [kind |-> "assert", act |-> a, loc |-> 0]

Locators ==
  << "html/body/div/div/div[1]/div[2]/div[1]/div/div",
     "html/body/div[1]/div/div[1]/div[1]/canvas",
     "html/body/div/div/div[1]/div[2]/button",
     "html/body/div/div/div[1]/div[1]/canvas",
     "html/body/div[1]/div/div[1]/div[2]/div[1]/div/div",
     "html/body/div/div/div[1]/div[2]/div/div[3]/button",
     "html/body/div/div/div[1]/div[4]/div[2]/button",
     "html/body/div/div/div[1]/div[2]/div[1]",
     "html/body/div[1]/div/div[1]",
     "html/body/div[1]/div/div[1]/div[2]/div[1]/h1",
     "html/body/div[1]/div/div[1]/div[2]/div/div[2]/button[2]",
     "html/body/div[1]/div/div[1]/div[2]/div/div[2]/button[1]",
     "html/body/div/div/div[1]/div[2]/div/div[2]/button[1]",
     "html/body/div[1]/div/div[1]/div[2]/div[2]" >>

TC002 ==
  [name |-> "TC002", fences |-> 0,
   steps |-> << G(1), C(2, 1), C(3, 2), C(4, 3), C(5, 4), C(6, 5), C(7, 3), G(8),
               G(9), G(10), C(11, 1), C(12, 2), G(13), C(14, 1), C(15, 3), C(16, 6),
               C(17, 1), C(17, 5), C(18, 3), C(19, 1), C(20, 5), C(21, 3), C(22, 1), C(23, 5),
               C(24, 3), C(25, 1), C(26, 5) >>]

TC004 ==
  [name |-> "TC004", fences |-> 0,
   steps |-> << G(1), C(2, 1), C(3, 5), C(4, 7), C(5, 4), C(6, 2), C(7, 7), C(7, 7),
               C(8, 8), C(9, 9), C(10, 7), C(11, 1), C(12, 5), G(13), C(14, 1), C(15, 10),
               C(16, 7), C(16, 7), C(17, 1), G(18), A(19) >>]

TC006 ==
  [name |-> "TC006", fences |-> 0,
   steps |-> << G(1), G(2), G(3), G(4), C(5, 1), C(6, 5), C(7, 3), C(8, 1),
               C(9, 2), C(10, 3), C(11, 11), C(12, 1), C(13, 2), C(14, 3), C(15, 1), C(16, 5),
               A(17) >>]

TC007 ==
  [name |-> "TC007", fences |-> 2,
   steps |-> << G(1), C(2, 1), C(3, 5), C(4, 3), C(5, 4), C(6, 3), C(7, 12), C(8, 4),
               C(9, 3), C(10, 12), C(11, 1), C(12, 3), C(13, 13), A(14) >>]

TC008 ==
  [name |-> "TC008", fences |-> 0,
   steps |-> << G(1), C(2, 1), C(3, 3), C(4, 1), G(5), G(6), G(7), G(8),
               C(9, 1), C(10, 3), C(11, 1), C(12, 3), C(13, 12), C(14, 1), C(15, 3), C(16, 1),
               C(17, 3), C(18, 1), C(19, 3), C(20, 1), G(21) >>]

TC009 ==
  [name |-> "TC009", fences |-> 0,
   steps |-> << G(1), C(2, 1), C(3, 5), C(4, 3), C(5, 1), G(6), G(7), C(8, 1),
               C(9, 5), C(10, 3), G(11), C(12, 1), C(13, 5), C(14, 3), C(15, 12), C(16, 1),
               C(17, 5), C(18, 3), C(19, 1), C(20, 5), C(21, 3), G(22), C(23, 1), C(24, 5),
               C(25, 3), C(26, 12), C(27, 1), C(28, 2), C(29, 1), C(30, 5), C(31, 3) >>]

TC010 ==
  [name |-> "TC010", fences |-> 0,
   steps |-> << G(1), C(2, 1), C(3, 2), C(4, 7), C(5, 1), C(6, 7), C(7, 1), A(8) >>]

TC012 ==
  [name |-> "TC012", fences |-> 0,
   steps |-> << G(1), C(2, 1), C(3, 5), C(4, 3), C(5, 1), C(6, 2), G(7), C(8, 4),
               C(9, 4), C(10, 10), C(11, 3), C(12, 1), C(13, 14), C(14, 3) >>]

TC013 ==
  [name |-> "TC013", fences |-> 0,
   steps |-> << G(1), C(2, 1), C(3, 5), C(4, 3), C(5, 1), C(6, 5), C(7, 3), C(8, 1),
               C(9, 5), C(10, 3), G(11), C(12, 1), C(12, 5), C(13, 3), C(14, 1), C(15, 5),
               C(16, 3), C(17, 1), C(17, 5), C(18, 3), C(19, 1), C(20, 5), C(21, 1), C(22, 5) >>]

TC014 ==
  [name |-> "TC014", fences |-> 2,
   steps |-> << G(1), G(2), G(3), G(4), A(5) >>]

TC015 ==
  [name |-> "TC015", fences |-> 0,
   steps |-> << G(1), C(2, 1), C(3, 5), C(4, 3), G(5), C(6, 4), C(7, 2), C(8, 1),
               C(9, 2), C(10, 3), C(11, 1), C(12, 2), C(13, 3), A(14) >>]

TC016 ==
  [name |-> "TC016", fences |-> 0,
   steps |-> << G(1), C(2, 1), C(3, 5), C(4, 3), C(5, 4), C(6, 5), C(7, 3), C(8, 1),
               C(9, 2), C(10, 3), C(11, 1), A(12) >>]

TC017 ==
  [name |-> "TC017", fences |-> 0,
   steps |-> << G(1), C(2, 1), C(2, 1), C(3, 2), G(4), G(5), A(6) >>]

Scripts ==
  {TC002, TC004, TC006, TC007, TC008, TC009, TC010, TC012, TC013, TC014,
   TC015, TC016, TC017}

\* ------------------------------------------------------ Python semantics
\* The names bound at module level: "import asyncio", "from playwright
\* import async_api" and "async def run_test".
ModuleGlobals == {"asyncio", "async_api", "run_test"}

NameBound(n) == n \in ModuleGlobals

\* A file with a Markdown fence line (```) inside run_test does not compile.
Compiles(s) == s.fences = 0

\* playwright.async_api.TimeoutError is a subclass of async_api.Error.
IsPlaywrightError(e) == e \in {"Error", "TimeoutError"}

\* The wait_for_load_state calls without their try/except.
SwallowsNothing(e) == e

\* try: await x.wait_for_load_state(...)  except async_api.Error: pass
SwallowError(e) == IF IsPlaywrightError(e) THEN "none" ELSE e

\* What the page can do to a goto, and what page.goto raises for it.
NavConds == {"committed", "timedout", "error"}

GotoRaises(cond) ==
  CASE cond = "committed" -> "none"
    [] cond = "timedout" -> "TimeoutError"
    [] cond = "error" -> "Error"

LoadConds == {"loaded", "timedout", "error"}

WaitLoadRaises(cond) ==
  CASE cond = "loaded" -> "none"
    [] cond = "timedout" -> "TimeoutError"
    [] cond = "error" -> "Error"

\* What the page can do to "wait_for_timeout(3000); elem.click(timeout=5000)":
\* the locator resolves and the click lands, the locator resolves to nothing
\* within the timeout, the element is found but never becomes clickable, or
\* the page is gone.
ClickConds == {"ok", "notfound", "notclickable", "crashed"}

GraceWaitRaises(cond) == IF cond = "crashed" THEN "Error" ELSE "none"

ClickRaises(cond) ==
  CASE cond = "ok" -> "none"
    [] cond = "notfound" -> "TimeoutError"
    [] cond = "notclickable" -> "TimeoutError"
    [] cond = "crashed" -> "Error"

\* Playwright's expect(locator).to_be_visible(timeout=3000).
ToBeVisible(vis) == IF vis THEN "none" ELSE "AssertionError"

\* await expect(frame.locator('text=...').first).to_be_visible(timeout=3000):
\* the name expect is looked up first.
ExpectRaises(vis) ==
  IF NameBound("expect") THEN ToBeVisible(vis) ELSE "NameError"

\* A blanket handler in place of the authored one: except Exception: pass
ExceptSwallowsAll(e) == "none"

\* except AssertionError: raise AssertionError("Test case failed: ...")
ExceptAssertionError(e) ==
  IF e = "AssertionError" THEN "AssertionError: Test case failed" ELSE e

\* The authored final assertion as a whole.
AssertRaises(vis) == ExceptAssertionError(ExpectRaises(vis))

\* The release calls written at the end of the try body instead of in a
\* finally block: an exception leaves run_test without reaching them.
RaiseSkipsCleanup == "done"

\* try: ... finally: an exception raised in the try body enters the finally
\* block before it propagates.
RaiseTarget == "finally"

\* A finally block that releases in acquisition order.
TeardownInAcquisitionOrder == <<"pw", "browser", "context">>

\* A finally block that stops the driver twice.
TeardownStopsTwice == <<"context", "browser", "pw", "pw">>

\* The finally block, in source order: if context / if browser / if pw.
TeardownOrder == <<"context", "browser", "pw">>

TeardownOps == {"context.close", "browser.close", "pw.stop"}

ReleaseOp(r) ==
  CASE r = "context" -> "context.close"
    [] r = "browser" -> "browser.close"
    [] r = "pw" -> "pw.stop"

Resources == {"pw", "browser", "context"}

NoExc == [type |-> "none", origin |-> "none", step |-> 0]

Exc(t, o, k) == [type |-> t, origin |-> o, step |-> k]


\* ------------------------------------------------------------------ state
VARIABLES
  script,      \* the file being run
  pc,          \* position of run_test
  step,        \* index of the next authored step
  pw,          \* TRUE when the local pw is bound to a driver (not None)
  browser,     \* likewise browser
  context,     \* likewise context
  page,        \* TRUE once context.new_page() returned
  nframes,     \* len(page.frames) after the first goto
  frameIdx,    \* position of "for frame in page.frames"
  td,          \* position in the finally block
  closeCalls,  \* how often each release operation was invoked
  released,    \* resources whose release operation returned
  exc,         \* the exception in flight / propagated to the caller
  visible,     \* the page currently shows the script's expected text
  pages,       \* context.pages: the pages of the context, oldest first
  frame,       \* the page the local frame is bound to (0: unbound)
  elem,        \* the locator the local elem is bound to
  trace        \* the automation calls issued so far, with their results

vars ==
  <<script, pc, step, pw, browser, context, page, nframes, frameIdx, td,
    closeCalls, released, exc, visible, pages, frame, elem, trace>>

\* A finally block without its "if" guards.
HandleUnguarded(r) == TRUE

Handle(r) ==
  CASE r = "context" -> context
    [] r = "browser" -> browser
    [] r = "pw" -> pw

Acquired == {r \in Resources : Handle(r)}

\* context.new_page() adds a page to context.pages.
PagesAfterNewPage(ps) == Append(ps, Len(ps) + 1)

\* A recovery step that does what its comment says ("Open a fresh tab to
\* http://localhost:3000"): a new page is opened for the navigation.
GotoOpensTab(ps) == Append(ps, Len(ps) + 1)

\* page.goto(...) re-navigates the page it is called on: context.pages is
\* unchanged.
PagesAfterGoto(ps) == ps

\* context.pages[-1]
LastPage(ps) == ps[Len(ps)]

\* elem before the first click step.
NoLocator == [loc |-> 0, page |-> 0, born |-> 0]

\* A locator cache: the locator made earlier for the same XPath is clicked
\* again.
ReusesLocator(old, l, p, now) ==
  IF old.loc = l THEN old ELSE [loc |-> l, page |-> p, born |-> now]

\* elem = frame.locator('xpath=...').nth(0): a new locator for XPath l on
\* page p, made when now automation calls had been issued.
FreshLocator(old, l, p, now) == [loc |-> l, page |-> p, born |-> now]

Init ==
  /\ script \in Scripts
  /\ pc = "load"
  /\ step = 1
  /\ pw = FALSE
  /\ browser = FALSE
  /\ context = FALSE
  /\ page = FALSE
  /\ nframes = 0
  /\ frameIdx = 1
  /\ td = 1
  /\ closeCalls = [r \in Resources |-> 0]
  /\ released = {}
  /\ exc = NoExc
  /\ visible = FALSE
  /\ pages = <<>>
  /\ frame = 0
  /\ elem = NoLocator
  /\ trace = <<>>

\* One automation call: the operation, the authored step it belongs to
\* (0 outside the step list), the exception it raised ("none" when it
\* returned), its timeout in milliseconds (0 when it takes none), for a
\* click what the page did to it ("-" for the other calls), the page the
\* call was issued on (0 when it is not a page call) and, for a click, the
\* birth of the locator it was issued through.
Ev(o, k, r, m) ==
  [op |-> o, step |-> k, res |-> r, ms |-> m, cond |-> "-", page |-> 0,
   born |-> 0]

\* The same call, issued on page p.
On(e, p) == [e EXCEPT !.page = p]

\* The page the local "page" is bound to: the first page of the context.
ThePage == 1

\* A retry loop around the assertion: its exception is dropped and the
\* assertion step is entered again.
RaiseRetriesAssert(t, o, k) ==
  IF o = "assert"
    THEN exc' = exc /\ pc' = "steps"
    ELSE exc' = Exc(t, o, k) /\ pc' = RaiseTarget

\* An exception raised inside the try body.
Raise(t, o, k) ==
  /\ exc' = Exc(t, o, k)
  /\ pc' = RaiseTarget

Steps == script.steps

\* A step written twice over: the statement after the next one runs next.
SkipsAStep(k) == k + 2

\* Straight-line code: the statement after step k is step k + 1.
NextStep(k) == k + 1

\* asyncio.run(run_test()) at the end of the file: nothing runs unless the
\* file compiles.
Load ==
  /\ pc = "load"
  /\ IF Compiles(script)
       THEN pc' = "start" /\ exc' = exc
       ELSE pc' = "done" /\ exc' = Exc("SyntaxError", "compile", 0)
  /\ UNCHANGED <<pages, frame, elem, script, step, pw, browser, context, page,
                 nframes, frameIdx, td, closeCalls, released, visible, trace>>

\* pw = await async_api.async_playwright().start()
StartDriver ==
  /\ pc = "start"
  /\ \E ok \in BOOLEAN :
       IF ok
         THEN /\ pw' = TRUE
              /\ pc' = "launch"
              /\ exc' = exc
              /\ trace' = Append(trace, Ev("pw.start", 0, "none", 0))
         ELSE /\ pw' = pw
              /\ Raise("Error", "pw.start", 0)
              /\ trace' = Append(trace, Ev("pw.start", 0, "Error", 0))
  /\ UNCHANGED <<pages, frame, elem, script, step, browser, context, page,
                 nframes, frameIdx, td, closeCalls, released, visible>>

\* browser = await pw.chromium.launch(headless=True, args=[...])
Launch ==
  /\ pc = "launch"
  /\ \E ok \in BOOLEAN :
       IF ok
         THEN /\ browser' = TRUE
              /\ pc' = "new_context"
              /\ exc' = exc
              /\ trace' = Append(trace, Ev("launch", 0, "none", 0))
         ELSE /\ browser' = browser
              /\ Raise("Error", "launch", 0)
              /\ trace' = Append(trace, Ev("launch", 0, "Error", 0))
  /\ UNCHANGED <<pages, frame, elem, script, step, pw, context, page, nframes,
                 frameIdx, td, closeCalls, released, visible>>

\* context = await browser.new_context(); context.set_default_timeout(5000)
NewContext ==
  /\ pc = "new_context"
  /\ \E ok \in BOOLEAN :
       IF ok
         THEN /\ context' = TRUE
              /\ pc' = "new_page"
              /\ exc' = exc
              /\ trace' = trace \o
                   << Ev("new_context", 0, "none", 0),
                      Ev("set_default_timeout", 0, "none", DefaultTimeoutMs) >>
         ELSE /\ context' = context
              /\ Raise("Error", "new_context", 0)
              /\ trace' = Append(trace, Ev("new_context", 0, "Error", 0))
  /\ UNCHANGED <<pages, frame, elem, script, step, pw, browser, page, nframes,
                 frameIdx, td, closeCalls, released, visible>>

\* A bootstrap without its initial load: after new_page() the script goes
\* straight to the DOMContentLoaded waits.
NewPageSkipsInitialLoad ==
  /\ pc = "new_page"
  /\ \E ok \in BOOLEAN :
       IF ok
         THEN /\ page' = TRUE
              /\ pages' = PagesAfterNewPage(pages)
              /\ pc' = "wait_dom"
              /\ exc' = exc
              /\ trace' = Append(trace, Ev("new_page", 0, "none", 0))
         ELSE /\ page' = page
              /\ pages' = pages
              /\ Raise("Error", "new_page", 0)
              /\ trace' = Append(trace, Ev("new_page", 0, "Error", 0))
  /\ nframes' = 1
  /\ UNCHANGED <<frame, elem, script, step, pw, browser, context, frameIdx,
                 td, closeCalls, released, visible>>

\* page = await context.new_page()
NewPage ==
  /\ pc = "new_page"
  /\ \E ok \in BOOLEAN :
       IF ok
         THEN /\ page' = TRUE
              /\ pages' = PagesAfterNewPage(pages)
              /\ pc' = "goto0"
              /\ exc' = exc
              /\ trace' = Append(trace, Ev("new_page", 0, "none", 0))
         ELSE /\ page' = page
              /\ pages' = pages
              /\ Raise("Error", "new_page", 0)
              /\ trace' = Append(trace, Ev("new_page", 0, "Error", 0))
  /\ UNCHANGED <<frame, elem, script, step, pw, browser, context, nframes,
                 frameIdx, td, closeCalls, released, visible>>

\* await page.goto("http://localhost:3000", wait_until="commit",
\*                 timeout=10000)   -- the load that ends bootstrap
InitialGoto ==
  /\ pc = "goto0"
  /\ \E cond \in NavConds, vis \in BOOLEAN, n \in 1..MaxFrames :
       LET e == GotoRaises(cond) IN
       /\ trace' = Append(trace, On(Ev("goto", 0, e, GotoTimeoutMs), ThePage))
       /\ IF e = "none"
            THEN /\ pc' = "wait_dom"
                 /\ exc' = exc
                 /\ visible' = vis
                 /\ nframes' = n
                 /\ pages' = PagesAfterGoto(pages)
            ELSE /\ Raise(e, "goto", 0)
                 /\ visible' = visible
                 /\ nframes' = nframes
                 /\ pages' = pages
  /\ UNCHANGED <<frame, elem, script, step, pw, browser, context, page,
                 frameIdx, td, closeCalls, released>>

\* try: await page.wait_for_load_state("domcontentloaded", timeout=3000)
\* except async_api.Error: pass
WaitDom ==
  /\ pc = "wait_dom"
  /\ \E cond \in LoadConds :
       LET raised == WaitLoadRaises(cond)
           e == SwallowError(raised) IN
       /\ trace' = Append(trace, Ev("wait_for_load_state", 0, raised, DomTimeoutMs))
       /\ IF e = "none"
            THEN pc' = "wait_frames" /\ exc' = exc
            ELSE Raise(e, "wait_for_load_state", 0)
  /\ UNCHANGED <<pages, frame, elem, script, step, pw, browser, context, page,
                 nframes, frameIdx, td, closeCalls, released, visible>>

\* for frame in page.frames:
\*     try: await frame.wait_for_load_state("domcontentloaded", timeout=3000)
\*     except async_api.Error: pass
WaitFrame ==
  /\ pc = "wait_frames"
  /\ frameIdx <= nframes
  /\ \E cond \in LoadConds :
       LET raised == WaitLoadRaises(cond)
           e == SwallowError(raised) IN
       /\ trace' = Append(trace,
                          Ev("frame.wait_for_load_state", 0, raised, DomTimeoutMs))
       /\ IF e = "none"
            THEN /\ pc' = IF frameIdx = nframes THEN "steps" ELSE "wait_frames"
                 /\ exc' = exc
                 /\ frameIdx' = frameIdx + 1
            ELSE /\ Raise(e, "frame.wait_for_load_state", 0)
                 /\ frameIdx' = frameIdx
  /\ UNCHANGED <<pages, frame, elem, script, step, pw, browser, context, page,
                 nframes, td, closeCalls, released, visible>>

\* await page.goto(url, wait_until="commit", timeout=10000)   -- authored step
GotoStep ==
  /\ pc = "steps"
  /\ step <= Len(Steps)
  /\ Steps[step].kind = "goto"
  /\ \E cond \in NavConds, vis \in BOOLEAN :
       LET e == GotoRaises(cond) IN
       /\ trace' = Append(trace, On(Ev("goto", step, e, GotoTimeoutMs), ThePage))
       /\ IF e = "none"
            THEN /\ step' = NextStep(step)
                 /\ pc' = pc
                 /\ exc' = exc
                 /\ visible' = vis
                 /\ pages' = PagesAfterGoto(pages)
            ELSE /\ Raise(e, "goto", step)
                 /\ step' = step
                 /\ visible' = visible
                 /\ pages' = pages
  /\ UNCHANGED <<frame, elem, script, pw, browser, context, page, nframes,
                 frameIdx, td, closeCalls, released>>

\* frame = context.pages[-1]
\* elem = frame.locator('xpath=...').nth(0)
\* await page.wait_for_timeout(3000); await elem.click(timeout=5000)
ClickStep ==
  /\ pc = "steps"
  /\ step <= Len(Steps)
  /\ Steps[step].kind = "click"
  /\ \E cond \in ClickConds, vis \in BOOLEAN :
       LET w == GraceWaitRaises(cond)
           e == ClickRaises(cond)
           loc == FreshLocator(elem, Steps[step].loc, LastPage(pages),
                               Len(trace)) IN
       /\ frame' = LastPage(pages)
       /\ elem' = loc
       /\ IF w # "none"
            THEN /\ trace' = Append(trace,
                      On(Ev("wait_for_timeout", step, w, GraceMs), ThePage))
                 /\ Raise(w, "wait_for_timeout", step)
                 /\ step' = step
                 /\ visible' = visible
            ELSE /\ trace' = trace \o
                      << On(Ev("wait_for_timeout", step, "none", GraceMs), ThePage),
                         [Ev("click", step, e, ClickTimeoutMs)
                            EXCEPT !.cond = cond, !.page = loc.page,
                                   !.born = loc.born] >>
                 /\ IF e = "none"
                      THEN /\ step' = NextStep(step)
                           /\ pc' = pc
                           /\ exc' = exc
                           /\ visible' = vis
                      ELSE /\ Raise(e, "click", step)
                           /\ step' = step
                           /\ visible' = visible
  /\ UNCHANGED <<pages, script, pw, browser, context, page, nframes, frameIdx,
                 td, closeCalls, released>>

\* frame = context.pages[-1]
\* try: await expect(frame.locator('text=...').first).to_be_visible(timeout=3000)
\* except AssertionError: raise AssertionError("Test case failed: ...")
AssertStep ==
  /\ pc = "steps"
  /\ step <= Len(Steps)
  /\ Steps[step].kind = "assert"
  /\ frame' = LastPage(pages)
  /\ LET e == AssertRaises(visible) IN
       /\ trace' = Append(trace,
            IF NameBound("expect")
              THEN On(Ev("to_be_visible", step, e, AssertTimeoutMs), frame')
              ELSE On(Ev("expect", step, e, 0), frame'))
       /\ IF e = "none"
            THEN /\ step' = NextStep(step)
                 /\ pc' = pc
                 /\ exc' = exc
            ELSE /\ Raise(e, "assert", step)
                 /\ step' = step
  /\ UNCHANGED <<pages, elem, script, pw, browser, context, page, nframes,
                 frameIdx, td, closeCalls, released, visible>>

\* await asyncio.sleep(5), then control falls into the finally block.
FinalSleep ==
  /\ pc = "steps"
  /\ step > Len(Steps)
  /\ trace' = Append(trace, Ev("asyncio.sleep", 0, "none", FinalSleepS * 1000))
  /\ pc' = "finally"
  /\ UNCHANGED <<pages, frame, elem, script, step, pw, browser, context, page,
                 nframes, frameIdx, td, closeCalls, released, exc, visible>>

\* finally:  if context: await context.close()
\*           if browser: await browser.close()
\*           if pw: await pw.stop()
\* A release operation that raises replaces the exception in flight and
\* leaves the finally block at once.
Release ==
  /\ pc = "finally"
  /\ td <= Len(TeardownOrder)
  /\ LET r == TeardownOrder[td] IN
       IF Handle(r)
         THEN \E ok \in BOOLEAN :
                /\ closeCalls' = [closeCalls EXCEPT ![r] = @ + 1]
                /\ IF ok
                     THEN /\ released' = released \cup {r}
                          /\ td' = td + 1
                          /\ pc' = pc
                          /\ exc' = exc
                          /\ trace' = Append(trace, Ev(ReleaseOp(r), 0, "none", 0))
                     ELSE /\ released' = released
                          /\ td' = td
                          /\ pc' = "done"
                          /\ exc' = Exc("Error", ReleaseOp(r), 0)
                          /\ trace' = Append(trace, Ev(ReleaseOp(r), 0, "Error", 0))
         ELSE /\ td' = td + 1
              /\ UNCHANGED <<closeCalls, released, pc, exc, trace>>
  /\ UNCHANGED <<pages, frame, elem, script, step, pw, browser, context, page,
                 nframes, frameIdx, visible>>

\* A finally block whose last await never returns.
ReturnNever ==
  /\ pc = "finally"
  /\ td > Len(TeardownOrder)
  /\ UNCHANGED vars

\* The end of the finally block: run_test returns, or the exception that
\* entered the block propagates to asyncio.run.
Return ==
  /\ pc = "finally"
  /\ td > Len(TeardownOrder)
  /\ pc' = "done"
  /\ UNCHANGED <<pages, frame, elem, script, step, pw, browser, context, page,
                 nframes, frameIdx, td, closeCalls, released, exc, visible,
                 trace>>

Next ==
  \/ Load
  \/ StartDriver
  \/ Launch
  \/ NewContext
  \/ NewPage
  \/ InitialGoto
  \/ WaitDom
  \/ WaitFrame
  \/ GotoStep
  \/ ClickStep
  \/ AssertStep
  \/ FinalSleep
  \/ Release
  \/ Return

Spec == Init /\ [][Next]_vars

\* Every statement of run_test is a single await on the one coroutine that
\* asyncio.run drives: whenever a statement can run, it does.
FairSpec == Spec /\ WF_vars(Next)

\* ------------------------------------------------------------ observations
Done == pc = "done"

Propagated == Done /\ exc # NoExc

ReturnedNormally == Done /\ exc = NoExc

HasAssert == \E k \in 1..Len(Steps) : Steps[k].kind = "assert"

Events(o) == {i \in 1..Len(trace) : trace[i].op = o}

TypeOK ==
  /\ pc \in {"load", "start", "launch", "new_context", "new_page", "goto0",
             "wait_dom", "wait_frames", "steps", "finally", "done"}
  /\ step \in 1..(Len(Steps) + 1)
  /\ td \in 1..(Len(TeardownOrder) + 1)
  /\ released \subseteq Resources

\* The goto and click steps of the script, and those the run completed.
ActionSteps == {k \in 1..Len(Steps) : Steps[k].kind \in {"goto", "click"}}

StepsOk ==
  {k \in ActionSteps :
     \E i \in 1..Len(trace) :
       /\ trace[i].step = k
       /\ trace[i].op \in {"goto", "click"}
       /\ trace[i].res = "none"}

AllStepsOk == StepsOk = ActionSteps

\* The final assertion step was reached; what it made of the page.
AssertEvents == Events("expect") \cup Events("to_be_visible")

AssertReached == AssertEvents # {}

AssertPassed == \E i \in AssertEvents : trace[i].res = "none"

\* run_test left the try body because of a step, the assertion or the
\* bootstrap (not because a release operation of the finally block raised).
ExitFromTryBody == exc.origin \notin TeardownOps

\* ----------------------------------------------------------------- claims

C3_ClickFailureSwallowed ==
  \A i \in Events("click") :
    trace[i].res = "TimeoutError"
      => /\ ~(exc.origin = "click" /\ exc.step = trace[i].step)
         /\ step > trace[i].step

\* C4: when the final assertion step is reached and the expected text is not
\* visible, run_test leaves the try body with the descriptive
\* AssertionError("Test case failed: ...") and no other exception.
C4_DescriptiveAssertionError ==
  (pc = "finally" /\ AssertReached /\ ~visible)
    => exc.type = "AssertionError: Test case failed"

\* C5: in a script with a final assertion, when every navigation and click
\* step succeeded and the expected text is visible when the assertion step
\* runs, the assertion succeeds and no exception leaves the try body.
C5_PassPath ==
  (pc = "finally" /\ HasAssert /\ AllStepsOk /\ AssertReached /\ visible)
    => (AssertPassed /\ exc = NoExc)

\* C6: the final assertion step reports success only if the expected text
\* was visible (the script issues no call after the assertion step, so the
\* page is as the assertion found it).
C6_PassOnlyIfVisible == AssertPassed => visible

\* The assertion step ran on a page without the expected text and did not
\* report success.
C6_Witness == AssertReached /\ ~visible /\ ~AssertPassed

\* C7: when a candidate locator of an action does not resolve, the next
\* candidate authored for the same action is still attempted.
C7_LaterCandidateTried ==
  Done =>
    \A i \in Events("click") :
      LET k == trace[i].step IN
      ( /\ trace[i].res = "TimeoutError"
        /\ k < Len(Steps)
        /\ Steps[k + 1].kind = "click"
        /\ Steps[k + 1].act = Steps[k].act )
        => \E j \in Events("click") : trace[j].step = k + 1

\* C8: once one candidate's click has succeeded, no further candidate of
\* the same action is clicked.
C8_StopAtFirstSuccess ==
  \A i \in Events("click") : \A j \in Events("click") :
    (i < j /\ trace[i].res = "none")
      => Steps[trace[j].step].act # Steps[trace[i].step].act

\* C9: every navigation (the initial load and every authored goto) hands
\* its outcome to the script as a value; a navigation that times out or
\* errors does not raise out of run_test and does not stop the later steps.
C9_NavigationNeverRaises ==
  \A i \in Events("goto") :
    trace[i].res # "none"
      => /\ ~(exc.origin = "goto" /\ exc.step = trace[i].step)
         /\ pc \notin {"finally", "done"} \/ step > Len(Steps)

\* C10: a run whose navigation and click steps all succeeded has checked a
\* text fragment's visibility before it terminates, in each of the 13
\* scripts.
C10_CompletedRunAsserted ==
  (Done /\ AllStepsOk) => Events("to_be_visible") # {}

\* The calls that interact with the page, and the authored-step calls.
StepOps == {"goto", "click", "expect", "to_be_visible"}

IsStepEvent(e) == e.step > 0 /\ e.op \in StepOps

StepEvents == {i \in 1..Len(trace) : trace[i].step > 0 /\ trace[i].op \in StepOps}

InteractionEvents ==
  {i \in 1..Len(trace) : trace[i].op \in {"goto", "click", "wait_for_timeout"}}

BootstrapOps == {"pw.start", "launch", "new_context", "new_page"}

LoadStateOps == {"wait_for_load_state", "frame.wait_for_load_state"}

\* C11: the visibility assertion is the last interaction of a run: no click
\* and no navigation is issued after an assertion was evaluated, and at
\* most one assertion is evaluated per run.
C11_AssertionIsLast ==
  /\ Cardinality(AssertEvents) <= 1
  /\ \A i \in AssertEvents : \A j \in InteractionEvents : j < i

\* A finished run that evaluated its assertion step after clicks and gotos.
C11_Witness ==
  /\ Done
  /\ AssertReached
  /\ Events("click") # {}
  /\ Events("goto") # {}

\* C12: the steps run strictly in authored order, without branching or
\* repetition: each authored step is executed at most once, a step starts
\* only after the step before it has returned, and a run never performs
\* more step actions than the script authors.
C12_StrictlySequential ==
  LET ss == SelectSeq(trace, IsStepEvent) IN
  /\ \A n \in 1..Len(ss) :
       /\ ss[n].step = n
       /\ n < Len(ss) => ss[n].res = "none"
  /\ Len(ss) <= Len(Steps)

\* A finished run that executed every authored step of a script of more
\* than twenty steps.
C12_Witness ==
  /\ Done
  /\ Len(Steps) > 20
  /\ Cardinality(StepEvents) = Len(Steps)

C15_BootstrapAttempted == Done => Events("pw.start") # {}

\* C16: the two failure outcomes of a click step are distinguished: what
\* the script gets when the locator resolves to nothing differs from what
\* it gets when the element was found but the click did not complete, and
\* every outcome is success or one of those two.
C16_OutcomesDistinguished ==
  \A i \in Events("click") :
    /\ trace[i].cond = "notfound" => trace[i].res # ClickRaises("notclickable")
    /\ trace[i].cond = "notclickable" => trace[i].res # ClickRaises("notfound")
    /\ trace[i].res \in {"none", "TimeoutError"}

\* C17: the release steps are independent: when run_test is over, the
\* release operation of every acquired resource has been invoked, also
\* when an earlier release operation raised.
C17_ReleasesIndependent ==
  Done => (\A r \in Acquired : closeCalls[r] >= 1)

C19_ReverseOrder ==
  /\ \A i \in Events("launch") : \E j \in Events("pw.start") : j < i
  /\ \A i \in Events("new_context") : \E j \in Events("launch") : j < i
  /\ \A i \in Events("browser.close") :
       /\ context => \E j \in Events("context.close") : j < i
       /\ \A j \in Events("context.close") : j < i
  /\ \A i \in Events("pw.stop") :
       /\ browser => \E j \in Events("browser.close") : j < i
       /\ context => \E j \in Events("context.close") : j < i
       /\ \A j \in Events("browser.close") \cup Events("context.close") : j < i

\* A finished run that acquired and released all three resources.
C19_Witness ==
  /\ Done
  /\ Events("context.close") # {}
  /\ Events("browser.close") # {}
  /\ Events("pw.stop") # {}

\* C20: a failure or timeout of a DOMContentLoaded wait of bootstrap is
\* swallowed: the wait changes nothing but the position of run_test,
\* whatever its outcome, and on to the first step; and no other automation
\* call that raised is caught.
C20_OnlyLoadStateSwallowed ==
  [][ /\ pc \in {"wait_dom", "wait_frames"}
           => /\ pc' \in {"wait_frames", "steps"}
              /\ exc' = NoExc
              /\ UNCHANGED <<pages, frame, elem, script, step, pw, browser,
                             context, page, nframes, td, closeCalls, released,
                             visible>>
      /\ \A i \in 1..Len(trace') :
           (trace'[i].res # "none" /\ trace'[i].op \notin LoadStateOps)
             => (exc' # NoExc /\ pc' \in {"finally", "done"})
    ]_vars

\* A run at its first authored step after the main-page wait timed out and
\* a frame wait raised.
C20_Witness ==
  /\ pc = "steps"
  /\ step = 1
  /\ exc = NoExc
  /\ \E i \in Events("wait_for_load_state") : trace[i].res = "TimeoutError"
  /\ \E i \in Events("frame.wait_for_load_state") : trace[i].res = "Error"

\* C21: no locator survives a step: the locator a click is issued through
\* was made in the same step, after every earlier call, with only the
\* step's own grace wait between its making and the click.
C21_FreshLocatorPerClick ==
  \A i \in Events("click") :
    /\ trace[i].born < i
    /\ \A j \in (trace[i].born + 1)..(i - 1) :
         /\ trace[j].op = "wait_for_timeout"
         /\ trace[j].step = trace[i].step

\* A click issued after an earlier click and a later authored navigation,
\* through a locator made just before its grace wait.
C21_Witness ==
  \E i \in Events("click") :
    /\ trace[i].born = i - 2
    /\ \E j \in Events("click") : \E k \in Events("goto") :
         j < k /\ k < i /\ trace[k].step > 1

SessionReady(i) ==
  /\ \A o \in BootstrapOps :
       \E j \in 1..(i - 1) : trace[j].op = o /\ trace[j].res = "none"
  /\ \E j \in 1..(i - 1) :
       trace[j].op = "goto" /\ trace[j].step = 0 /\ trace[j].res = "none"

\* C23: no click and no assertion is issued before driver, browser, context
\* and page are acquired and the initial navigation has returned; no click,
\* navigation or assertion is issued once the first release operation of
\* the finally block has started.
C23_InteractionsInsideSession ==
  /\ \A i \in Events("click") \cup AssertEvents : SessionReady(i)
  /\ \A i \in 1..Len(trace) :
       trace[i].op \in TeardownOps
         => \A j \in (i + 1)..Len(trace) : trace[j].op \in TeardownOps

\* A finished run that clicked, reached its assertion and then released all
\* three resources.
C23_Witness ==
  /\ Done
  /\ Events("click") # {}
  /\ AssertReached
  /\ released = Resources
====
